---- MODULE Spec2Model ----
(***************************************************************************)
(* Model of the ElectroLink storefront backend (backend-files/app.py): the *)
(* two JSON documents on disk, the loaders, and the JSON API handlers.     *)
(*                                                                         *)
(* Representation.  A Python str is a sequence of one-character strings;   *)
(* an optional value (a dict key that may be absent, a query argument that *)
(* may be absent, None) is a sequence of length 0 or 1.  Prices are        *)
(* integers.  A response is [status, body]; a JSON body is a record.       *)
(***************************************************************************)
EXTENDS Integers, Sequences, FiniteSets, TLC

VARIABLES productsFile,      \* data/products.json
          translationsFile,  \* data/translations.json
          pc,                \* "idle" | "responded"
          req,               \* the request being answered
          resp,              \* the response produced for it
          recording,         \* a client keeps its first exchange (session runs)
          first              \* that first exchange

vars == <<productsFile, translationsFile, pc, req, resp, recording, first>>

(***************************************************************************)
(* Bounds                                                                  *)
(***************************************************************************)
MaxProducts == 2     \* longest stored product list
MaxQueryLen == 2     \* longest raw search query
MaxLimit    == 2     \* largest numeric limit argument
MaxClock    == 1     \* clock readings 0..MaxClock

None == <<>>
Some(v) == <<v>>

(***************************************************************************)
(* Strings                                                                 *)
(***************************************************************************)
\* The characters in use, in code point order: tab, space, A-Z, a-z.
Alphabet ==
  <<"\t", " ",
    "A","B","C","D","E","F","G","H","I","J","K","L","M",
    "N","O","P","Q","R","S","T","U","V","W","X","Y","Z",
    "a","b","c","d","e","f","g","h","i","j","k","l","m",
    "n","o","p","q","r","s","t","u","v","w","x","y","z">>

Ord(c) == CHOOSE i \in 1..Len(Alphabet) : Alphabet[i] = c

IsSpace(c) == c \in {"\t", " "}

\* str.lower(), one character: an upper-case letter maps to its lower-case one
LowerChar(c) == IF Ord(c) >= 3 /\ Ord(c) <= 28 THEN Alphabet[Ord(c) + 26] ELSE c

str_lower(s) == [i \in 1..Len(s) |-> LowerChar(s[i])]

RECURSIVE lstrip(_)
lstrip(s) == IF s # <<>> /\ IsSpace(Head(s)) THEN lstrip(Tail(s)) ELSE s

RECURSIVE rstrip(_)
rstrip(s) ==
  IF s # <<>> /\ IsSpace(s[Len(s)]) THEN rstrip(SubSeq(s, 1, Len(s) - 1)) ELSE s

str_strip(s) == rstrip(lstrip(s))

\* needle in hay
str_contains(hay, needle) ==
  \E i \in 0..(Len(hay) - Len(needle)) :
     SubSeq(hay, i + 1, i + Len(needle)) = needle

\* s < t, lexicographic by code point
RECURSIVE str_lt(_, _)
str_lt(s, t) ==
  IF t = <<>> THEN FALSE
  ELSE IF s = <<>> THEN TRUE
  ELSE IF Head(s) = Head(t) THEN str_lt(Tail(s), Tail(t))
  ELSE Ord(Head(s)) < Ord(Head(t))

(***************************************************************************)
(* Product records and the documents on disk                               *)
(***************************************************************************)
\* dict.get(key, default)
dict_get(p, key, default) == IF p[key] = None THEN default ELSE p[key][1]

P1 == [id |-> Some(1), name |-> Some(<<"A","b">>), code |-> Some(<<"a">>),
       description |-> Some(<<"b"," ","a">>), category |-> Some(<<"x">>),
       price |-> Some(10), visible |-> Some(TRUE)]
P2 == [id |-> Some(2), name |-> Some(<<"a","b">>), code |-> Some(<<"B">>),
       description |-> Some(<<>>), category |-> Some(<<"x">>),
       price |-> Some(5), visible |-> Some(TRUE)]
P3 == [id |-> Some(3), name |-> Some(<<"B">>), code |-> None,
       description |-> None, category |-> Some(<<"y">>),
       price |-> Some(5), visible |-> Some(FALSE)]
P4 == [id |-> Some(4), name |-> None, code |-> None,
       description |-> None, category |-> None,
       price |-> None, visible |-> None]
P5 == [id |-> Some(5), name |-> Some(<<>>), code |-> Some(<<>>),
       description |-> Some(<<>>), category |-> Some(<<>>),
       price |-> Some(0), visible |-> Some(TRUE)]
P6 == [id |-> Some(0), name |-> Some(<<"b">>), code |-> Some(<<"A","b">>),
       description |-> None, category |-> Some(<<"y">>),
       price |-> Some(10), visible |-> Some(TRUE)]

Catalogue == {P1, P2, P3, P4, P5, P6}

\* product lists of at most MaxProducts records with pairwise distinct ids
ProductLists ==
  UNION { { s \in [1..n -> Catalogue] :
              \A i, j \in 1..n : i # j => s[i].id # s[j].id } :
          n \in 0..MaxProducts }

ProductFiles ==
  { [state |-> "ok", data |-> s] : s \in ProductLists }
  \cup { [state |-> st, data |-> <<>>] : st \in {"missing", "malformed"} }

\* translations.json: language -> messages
Table == [l \in {"az", "en"} |-> IF l = "az" THEN "az-messages" ELSE "en-messages"]
EmptyTable == [l \in {} |-> ""]

TranslationFiles ==
  { [state |-> "ok", data |-> Table],
    [state |-> "missing", data |-> EmptyTable],
    [state |-> "malformed", data |-> EmptyTable] }

\* load_products: the list in the file; [] when the file is missing or is
\* not valid JSON
load_products(file) == IF file.state = "ok" THEN file.data ELSE <<>>

\* save_products: the file afterwards
save_products(products) == [state |-> "ok", data |-> products]

\* load_translations: the table in the file; {} when the file is missing;
\* json.JSONDecodeError is not caught and leaves the function
load_translations(file) ==
  IF file.state = "ok" THEN [raised |-> FALSE, value |-> file.data]
  ELSE IF file.state = "missing" THEN [raised |-> FALSE, value |-> EmptyTable]
  ELSE [raised |-> TRUE, value |-> EmptyTable]

(***************************************************************************)
(* Query arguments                                                         *)
(***************************************************************************)
\* A raw numeric argument is text that parses as a number, or text that
\* does not.
Num(v) == [num |-> TRUE, val |-> v]
NotANumber == [num |-> FALSE, val |-> 0]

\* request.args.get(key, default)
args_get(raw, default) == IF raw = None THEN default ELSE raw[1]

\* request.args.get(key, default, type=...): the default also when the
\* conversion raises ValueError
args_get_type(raw, default) ==
  IF raw = None THEN default
  ELSE IF raw[1].num THEN Some(raw[1].val)
  ELSE default

(***************************************************************************)
(* list.sort(key=..., reverse=...)                                         *)
(***************************************************************************)
Reverse(s) == [i \in 1..Len(s) |-> s[Len(s) + 1 - i]]

\* x.get('name', '').lower()
name_key(p) == str_lower(dict_get(p, "name", <<>>))

\* as price_of, with another default
price_of_unit(p) == dict_get(p, "price", 1)

\* p.get('price', 0)
price_of(p) == dict_get(p, "price", 0)

key_lt(kind, p, q) ==
  IF kind = "name" THEN str_lt(name_key(p), name_key(q))
  ELSE price_of(p) < price_of(q)

\* x goes before the first element whose key is greater than its own
RECURSIVE insert(_, _, _)
insert(x, s, kind) ==
  IF s = <<>> THEN <<x>>
  ELSE IF key_lt(kind, x, Head(s)) THEN <<x>> \o s
  ELSE <<Head(s)>> \o insert(x, Tail(s), kind)

RECURSIVE stable_sort(_, _)
stable_sort(s, kind) ==
  IF s = <<>> THEN <<>>
  ELSE insert(s[Len(s)], stable_sort(SubSeq(s, 1, Len(s) - 1), kind), kind)

\* as list_sort, reversing the ascending result
list_sort_flipped(s, kind, reverse) ==
  IF reverse THEN Reverse(stable_sort(s, kind)) ELSE stable_sort(s, kind)

\* reverse=True keeps the original order of equal elements: the list is
\* reversed, sorted, and reversed again
list_sort(s, kind, reverse) ==
  IF reverse THEN Reverse(stable_sort(Reverse(s), kind))
  ELSE stable_sort(s, kind)

(***************************************************************************)
(* Handlers                                                                *)
(***************************************************************************)
All == <<"a","l","l">>
True == <<"t","r","u","e">>
Other == <<"o","t","h","e","r">>
DefaultLimit == 8

\* p.get('visible', True)
is_visible(p) == dict_get(p, "visible", TRUE)

\* as visible_only, comparing the argument as typed
visible_only_as_typed(args) == args_get(args.visible, True) = True

\* request.args.get('visible', 'true').lower() == 'true'
visible_only(args) == str_lower(args_get(args.visible, True)) = True

\* p.get('category') == category
category_is(p, category) == p.category # None /\ p.category[1] = category

\* as filter_min_price, with a strict comparison
filter_min_price_strict(products, min_price) ==
  IF min_price # None
    THEN SelectSeq(products, LAMBDA p : price_of(p) > min_price[1])
    ELSE products


filter_min_price(products, min_price) ==
  IF min_price # None
    THEN SelectSeq(products, LAMBDA p : price_of(p) >= min_price[1])
    ELSE products

filter_max_price(products, max_price) ==
  IF max_price # None
    THEN SelectSeq(products, LAMBDA p : price_of(p) <= max_price[1])
    ELSE products

sort_products(products, sort_by) ==
  IF sort_by = "name-asc" THEN list_sort(products, "name", FALSE)
  ELSE IF sort_by = "name-desc" THEN list_sort(products, "name", TRUE)
  ELSE IF sort_by = "price-asc" THEN list_sort(products, "price", FALSE)
  ELSE IF sort_by = "price-desc" THEN list_sort(products, "price", TRUE)
  ELSE products

\* the list get_products returns
query_products(loaded, args) ==
  LET category  == args_get(args.category, All)
      min_price == args_get_type(args.min_price, None)
      max_price == args_get_type(args.max_price, None)
      sort_by   == args_get(args.sort, "default")
      byVisible == IF visible_only(args) THEN SelectSeq(loaded, is_visible)
                   ELSE loaded
      byCategory == IF category # All
                      THEN SelectSeq(byVisible, LAMBDA p : category_is(p, category))
                      ELSE byVisible
      byPrice == filter_max_price(filter_min_price(byCategory, min_price), max_price)
  IN sort_products(byPrice, sort_by)

get_products(file, args) ==
  LET products == query_products(load_products(file), args)
  IN [status |-> 200,
      body |-> [success |-> TRUE, count |-> Len(products), products |-> products]]

\* as find_product, looking among the visible products only
find_product_visible(products, product_id) ==
  LET found == SelectSeq(products, LAMBDA p : /\ dict_get(p, "visible", TRUE)
                                              /\ p.id # None /\ p.id[1] = product_id)
  IN IF found = <<>> THEN None ELSE Some(found[1])

\* next((p for p in products if p.get('id') == product_id), None)
find_product(products, product_id) ==
  LET found == SelectSeq(products, LAMBDA p : p.id # None /\ p.id[1] = product_id)
  IN IF found = <<>> THEN None ELSE Some(found[1])

\* a dict that has the key 'id' is not empty, so "if product:" is "found"
get_product(file, product_id) ==
  LET product == find_product(load_products(file), product_id)
  IN IF product # None
       THEN [status |-> 200, body |-> [success |-> TRUE, product |-> product[1]]]
       ELSE [status |-> 404,
             body |-> [success |-> FALSE, error |-> "Product not found"]]

\* as slice_to, with the element at index limit included
slice_through(s, limit) ==
  LET n    == Len(s)
      stop == IF limit < 0 THEN (IF n + limit < 0 THEN 0 ELSE n + limit)
              ELSE (IF limit + 1 > n THEN n ELSE limit + 1)
  IN SubSeq(s, 1, stop)

\* s[:limit]
slice_to(s, limit) ==
  LET n    == Len(s)
      stop == IF limit < 0 THEN (IF n + limit < 0 THEN 0 ELSE n + limit)
              ELSE (IF limit > n THEN n ELSE limit)
  IN SubSeq(s, 1, stop)

get_featured_products(file, args) ==
  LET visible_products == SelectSeq(load_products(file), is_visible)
      limit    == args_get_type(args.limit, Some(DefaultLimit))[1]
      featured == slice_to(visible_products, limit)
  IN [status |-> 200,
      body |-> [success |-> TRUE, count |-> Len(featured), products |-> featured]]

\* sorted(list(set))
RECURSIVE sorted(_)
sorted(S) ==
  IF S = {} THEN <<>>
  ELSE LET m == CHOOSE x \in S : \A y \in S : ~str_lt(y, x)
       IN <<m>> \o sorted(S \ {m})

get_categories(file) ==
  LET products == load_products(file)
      categories == sorted({ dict_get(products[i], "category", Other) :
                             i \in { j \in 1..Len(products) : is_visible(products[j]) } })
  IN [status |-> 200, body |-> [success |-> TRUE, categories |-> categories]]

\* as search_query, without strip()
search_query_unstripped(args) == str_lower(args_get(args.q, <<>>))

\* request.args.get('q', '').lower().strip()
search_query(args) == str_strip(str_lower(args_get(args.q, <<>>)))

search_matches(p, query) ==
  \/ str_contains(str_lower(dict_get(p, "name", <<>>)), query)
  \/ str_contains(str_lower(dict_get(p, "code", <<>>)), query)
  \/ str_contains(str_lower(dict_get(p, "description", <<>>)), query)

search_results(loaded, query) ==
  SelectSeq(loaded, LAMBDA p : is_visible(p) /\ search_matches(p, query))

search_products(file, args) ==
  LET query == search_query(args)
  IN IF query = <<>>
       THEN [status |-> 400,
             body |-> [success |-> FALSE, error |-> "Search query is required"]]
       ELSE LET results == search_results(load_products(file), query)
            IN [status |-> 200,
                body |-> [success |-> TRUE, query |-> query,
                          count |-> Len(results), results |-> results]]

\* as internal_error, answering with a page
internal_error_page == [status |-> 500, body |-> [template |-> "index.html"]]

\* errorhandler(500)
internal_error ==
  [status |-> 500, body |-> [success |-> FALSE, error |-> "Internal server error"]]

get_translations(file, args) ==
  LET lang == args_get(args.lang, "az")
      loaded == load_translations(file)
  IN IF loaded.raised THEN internal_error
     ELSE IF lang \in DOMAIN loaded.value
       THEN [status |-> 200,
             body |-> [success |-> TRUE, language |-> lang,
                       translations |-> loaded.value[lang]]]
       ELSE [status |-> 404,
             body |-> [success |-> FALSE,
                       error |-> <<"Language ", lang, " not supported">>,
                       available_languages |-> DOMAIN loaded.value]]

\* errorhandler(404); a path is its sequence of segments
not_found(path) ==
  IF Len(path) >= 2 /\ path[1] = "api"
    THEN [status |-> 404,
          body |-> [success |-> FALSE, error |-> "Resource not found"]]
    ELSE [status |-> 404, body |-> [template |-> "index.html"]]

\* errorhandler(405)
method_not_allowed ==
  [status |-> 405, body |-> [success |-> FALSE, error |-> "Method not allowed"]]

health_check(now) ==
  [status |-> 200, body |-> [status |-> "healthy", timestamp |-> now]]

(***************************************************************************)
(* Requests                                                                *)
(***************************************************************************)
CategoryArgs == {None, Some(<<"x">>), Some(<<>>)}
PriceArgs    == {None, Some(Num(5)), Some(NotANumber)}
SortArgs     == {None, Some("name-asc"), Some("name-desc"), Some("price-asc"),
                 Some("price-desc"), Some("newest")}
VisibleArgs  == {None, Some(<<"T","R","U","E">>), Some(<<"f","a","l","s","e">>)}
ProductIds   == 0..Cardinality(Catalogue)
LimitArgs    == {None, Some(NotANumber)} \cup { Some(Num(v)) : v \in (-1)..MaxLimit }
QueryChars   == {" ", "\t", "A", "b"}
QueryArgs    == {None} \cup
                UNION { { Some(q) : q \in [1..n -> QueryChars] } : n \in 0..MaxQueryLen }
LangArgs     == {None, Some("en"), Some("ru")}
UnknownPaths == {<<"api", "orders">>, <<"orders">>}
PostRoutes   == {"/api/products", "/api/search"}
Clock        == 0..MaxClock

NoRequest  == [method |-> "none", route |-> "none", args |-> [none |-> TRUE]]
NoResponse == [status |-> 0, body |-> [none |-> TRUE]]
NoExchange == [set |-> FALSE, req |-> NoRequest, resp |-> NoResponse,
               between |-> FALSE]

Get(route, args) == [method |-> "GET", route |-> route, args |-> args]

\* the server answers one request; a recording client keeps its first exchange
\* and notes whether a different request has been answered since
Answer(request, response) ==
  /\ pc = "idle"
  /\ pc' = "responded"
  /\ req' = request
  /\ resp' = response
  /\ first' = IF recording /\ ~first.set
                THEN [set |-> TRUE, req |-> request, resp |-> response,
                      between |-> FALSE]
                ELSE IF recording /\ request # first.req
                  THEN [first EXCEPT !.between = TRUE]
                  ELSE first
  /\ UNCHANGED recording

(***************************************************************************)
(* Actions                                                                 *)
(***************************************************************************)
\* as GetProducts, writing the list it returns back to the file
GetProductsSaving ==
  \E category \in CategoryArgs, min_price \in PriceArgs, max_price \in PriceArgs,
     sort \in SortArgs, visible \in VisibleArgs :
    LET args == [category |-> category, min_price |-> min_price,
                 max_price |-> max_price, sort |-> sort, visible |-> visible]
    IN /\ Answer(Get("/api/products", args), get_products(productsFile, args))
       /\ productsFile' = save_products(get_products(productsFile, args).body.products)
       /\ UNCHANGED translationsFile


GetProducts ==
  \E category \in CategoryArgs, min_price \in PriceArgs, max_price \in PriceArgs,
     sort \in SortArgs, visible \in VisibleArgs :
    LET args == [category |-> category, min_price |-> min_price,
                 max_price |-> max_price, sort |-> sort, visible |-> visible]
    IN /\ Answer(Get("/api/products", args), get_products(productsFile, args))
       /\ UNCHANGED <<productsFile, translationsFile>>

GetProduct ==
  \E product_id \in ProductIds :
    /\ Answer(Get("/api/products/<int:product_id>", [product_id |-> product_id]),
              get_product(productsFile, product_id))
    /\ UNCHANGED <<productsFile, translationsFile>>

GetFeaturedProducts ==
  \E limit \in LimitArgs :
    LET args == [limit |-> limit]
    IN /\ Answer(Get("/api/products/featured", args),
                 get_featured_products(productsFile, args))
       /\ UNCHANGED <<productsFile, translationsFile>>

GetCategories ==
  /\ Answer(Get("/api/categories", [none |-> TRUE]), get_categories(productsFile))
  /\ UNCHANGED <<productsFile, translationsFile>>

SearchProducts ==
  \E q \in QueryArgs :
    LET args == [q |-> q]
    IN /\ Answer(Get("/api/search", args), search_products(productsFile, args))
       /\ UNCHANGED <<productsFile, translationsFile>>

GetTranslations ==
  \E lang \in LangArgs :
    LET args == [lang |-> lang]
    IN /\ Answer(Get("/api/translations", args),
                 get_translations(translationsFile, args))
       /\ UNCHANGED <<productsFile, translationsFile>>

HealthCheck ==
  \E now \in Clock :
    /\ Answer(Get("/health", [none |-> TRUE]), health_check(now))
    /\ UNCHANGED <<productsFile, translationsFile>>

\* a path no route matches
NotFound ==
  \E path \in UnknownPaths :
    /\ Answer(Get("none", [path |-> path]), not_found(path))
    /\ UNCHANGED <<productsFile, translationsFile>>

\* a method the route does not accept
MethodNotAllowed ==
  \E route \in PostRoutes :
    /\ Answer([method |-> "POST", route |-> route, args |-> [none |-> TRUE]],
              method_not_allowed)
    /\ UNCHANGED <<productsFile, translationsFile>>

\* the response is sent and the server waits for the next request
SendResponse ==
  /\ pc = "responded"
  /\ pc' = "idle"
  /\ req' = NoRequest
  /\ resp' = NoResponse
  /\ UNCHANGED <<productsFile, translationsFile, recording, first>>

Init ==
  /\ productsFile \in ProductFiles
  /\ translationsFile \in TranslationFiles
  /\ pc = "idle"
  /\ req = NoRequest
  /\ resp = NoResponse
  /\ recording = FALSE
  /\ first = NoExchange

Next ==
  \/ GetProducts
  \/ GetProduct
  \/ GetFeaturedProducts
  \/ GetCategories
  \/ SearchProducts
  \/ GetTranslations
  \/ HealthCheck
  \/ NotFound
  \/ MethodNotAllowed
  \/ SendResponse

Spec == Init /\ [][Next]_vars

\* one client session against one catalogue; the client records its first
\* exchange
Shelf == <<P3, P2, P1, P4, P5, P6>>

SessionInit ==
  /\ productsFile = [state |-> "ok", data |-> SubSeq(Shelf, 1, MaxProducts)]
  /\ translationsFile = [state |-> "ok", data |-> Table]
  /\ pc = "idle"
  /\ req = NoRequest
  /\ resp = NoResponse
  /\ recording = TRUE
  /\ first = NoExchange

SpecSession == SessionInit /\ [][Next]_vars

(***************************************************************************)
(* Properties                                                              *)
(***************************************************************************)
\* the product list in the file, empty when the file cannot be read
Stored == IF productsFile.state = "ok" THEN productsFile.data ELSE <<>>

Answered(route) == pc = "responded" /\ req.method = "GET" /\ req.route = route

Range(s) == { s[i] : i \in 1..Len(s) }

\* the position of a stored product (ids are distinct)
Pos(p) == CHOOSE i \in 1..Len(Stored) : Stored[i] = p

\* 'true' in any letter case
IsTrueAnyCase(s) ==
  /\ Len(s) = 4
  /\ s[1] \in {"t", "T"} /\ s[2] \in {"r", "R"}
  /\ s[3] \in {"u", "U"} /\ s[4] \in {"e", "E"}

VisibleOnlyAsked(raw) == raw = None \/ IsTrueAnyCase(raw[1])

Given(raw) == raw # None /\ raw[1].num

\* C1: a GET /api/products request whose 'visible' argument is absent or is
\* 'true' in any letter case returns no product whose visible field is false.
VisibleOnlyHidesInvisible ==
  (Answered("/api/products") /\ VisibleOnlyAsked(req.args.visible))
    => \A p \in Range(resp.body.products) : p.visible # Some(FALSE)

\* C1 witness: the argument is 'TRUE', an invisible product is stored, and
\* the response lists the other stored product only.
VisibleOnlyWitness ==
  /\ Answered("/api/products")
  /\ req.args.visible = Some(<<"T","R","U","E">>)
  /\ P3 \in Range(Stored)
  /\ Len(Stored) = 2
  /\ resp.body.count = 1

SortAsked == args_get(req.args.sort, "default")

\* C2: under name-asc, name-desc, price-asc and price-desc the returned list
\* is ordered by the key in the requested direction and products with equal
\* keys keep their stored order; under any other sort value the returned
\* list keeps stored order.
SortIsStable ==
  Answered("/api/products") =>
    LET out  == resp.body.products
        kind == IF SortAsked \in {"name-asc", "name-desc"} THEN "name" ELSE "price"
        desc == SortAsked \in {"name-desc", "price-desc"}
    IN \A i, j \in 1..Len(out) :
         i < j =>
           IF SortAsked \in {"name-asc", "name-desc", "price-asc", "price-desc"}
             THEN /\ IF desc THEN ~key_lt(kind, out[i], out[j])
                             ELSE ~key_lt(kind, out[j], out[i])
                  /\ (~key_lt(kind, out[i], out[j]) /\ ~key_lt(kind, out[j], out[i]))
                       => Pos(out[i]) < Pos(out[j])
             ELSE Pos(out[i]) < Pos(out[j])

\* C2 witness: a descending sort returned two products with equal keys.
SortTieWitness ==
  /\ Answered("/api/products")
  /\ SortAsked = "name-desc"
  /\ resp.body.count = 2
  /\ name_key(resp.body.products[1]) = name_key(resp.body.products[2])
  /\ resp.body.products[1] # resp.body.products[2]

PassesVisibility(p) ==
  VisibleOnlyAsked(req.args.visible) => p.visible # Some(FALSE)

PassesCategory(p) ==
  (req.args.category # None /\ req.args.category[1] # All)
    => p.category = req.args.category

\* C3: a stored product with a price that passes the visibility and category
\* filters is returned iff min_price <= price (when a numeric min_price is
\* given) and price <= max_price (when a numeric max_price is given).
PriceBoundsInclusive ==
  Answered("/api/products") =>
    \A p \in Range(Stored) :
      (p.price # None /\ PassesVisibility(p) /\ PassesCategory(p)) =>
        ( p \in Range(resp.body.products)
            <=> /\ Given(req.args.min_price) => req.args.min_price[1].val <= p.price[1]
                /\ Given(req.args.max_price) => p.price[1] <= req.args.max_price[1].val )

\* C3 witness: a product priced at both bounds is returned.
PriceBoundaryWitness ==
  /\ Answered("/api/products")
  /\ Given(req.args.min_price) /\ Given(req.args.max_price)
  /\ \E p \in Range(resp.body.products) :
        /\ p.price = Some(req.args.min_price[1].val)
        /\ p.price = Some(req.args.max_price[1].val)
  /\ \E p \in Range(Stored) : p \notin Range(resp.body.products)

Blank(raw) == raw = None \/ \A i \in 1..Len(raw[1]) : IsSpace(raw[1][i])

\* C4: GET /api/search answers 400 with success=false exactly when q is
\* absent, empty or whitespace only.
BlankQueryRejected ==
  Answered("/api/search") =>
    IF Blank(req.args.q)
      THEN resp.status = 400 /\ resp.body.success = FALSE
      ELSE resp.status # 400

\* C4 witness: a query of whitespace against a non-empty list is rejected.
BlankQueryWitness ==
  /\ Answered("/api/search")
  /\ req.args.q = Some(<<" ", "\t">>)
  /\ Stored # <<>>
  /\ resp.status = 400

\* C5: GET /api/products/{id} answers 200 with success=true and a product
\* with that id exactly when such a product is stored (visible or not), and
\* 404 with success=false and error "Product not found" otherwise.
ProductLookup ==
  Answered("/api/products/<int:product_id>") =>
    IF \E p \in Range(Stored) : p.id = Some(req.args.product_id)
      THEN /\ resp.status = 200
           /\ resp.body.success = TRUE
           /\ resp.body.product.id = Some(req.args.product_id)
           /\ resp.body.product \in Range(Stored)
      ELSE /\ resp.status = 404
           /\ resp.body.success = FALSE
           /\ resp.body.error = "Product not found"

\* C5 witness: an invisible product is found by its id.
ProductLookupWitness ==
  /\ Answered("/api/products/<int:product_id>")
  /\ resp.status = 200
  /\ resp.body.product.visible = Some(FALSE)

\* C6: a missing or malformed backing document loads as an empty result and
\* no request fails because of it.
LoadNeverFails ==
  pc = "responded" =>
    /\ resp.status # 500
    /\ (Answered("/api/products") /\ productsFile.state # "ok")
         => resp.body.products = <<>>
    /\ (Answered("/api/translations") /\ translationsFile.state # "ok")
         => resp.body.available_languages = {}

HasSuccess(body) == "success" \in DOMAIN body /\ body.success \in BOOLEAN

ListedEndpoints ==
  {"/api/products", "/api/products/<int:product_id>", "/api/products/featured",
   "/api/categories", "/api/search", "/api/translations", "/health"}

ApiRoutes == ListedEndpoints \ {"/health"}

\* C7 as stated: every response of every listed JSON endpoint, /health
\* included, contains a boolean field 'success'.
EveryResponseHasSuccess ==
  (pc = "responded" /\ req.route \in ListedEndpoints) => HasSuccess(resp.body)

\* C7: every response of the /api/ endpoints, error responses included, and
\* every JSON response of the 404, 405 and 500 handlers contains a boolean
\* field 'success'; the /health response has status and timestamp and no
\* 'success'.
ApiResponsesHaveSuccess ==
  pc = "responded" =>
    IF req.route = "/health"
      THEN DOMAIN resp.body = {"status", "timestamp"}
      ELSE (req.route \in ApiRoutes \/ "template" \notin DOMAIN resp.body)
             => HasSuccess(resp.body)

\* C7 witness: an error response of an /api/ endpoint.
ErrorEnvelopeWitness ==
  /\ Answered("/api/translations")
  /\ resp.status = 500
  /\ resp.body.success = FALSE

VisibleStored == SelectSeq(Stored, LAMBDA p : p.visible # Some(FALSE))

LimitAsked == IF Given(req.args.limit) THEN req.args.limit[1].val ELSE DefaultLimit

Min(a, b) == IF a < b THEN a ELSE b

FeaturedPrefix ==
  /\ Len(resp.body.products) <= LimitAsked
  /\ resp.body.products = SubSeq(VisibleStored, 1, Min(LimitAsked, Len(VisibleStored)))
  /\ resp.body.count = Len(resp.body.products)

\* C8 as stated: for every integer limit, GET /api/products/featured returns
\* the first min(limit, n) of the n visible products, never more than limit.
FeaturedIsPrefixAnyLimit ==
  Answered("/api/products/featured") => FeaturedPrefix

\* C8: for every non-negative integer limit (8 when absent),
\* GET /api/products/featured returns the first min(limit, n) of the n
\* visible products in stored order, and count is its length.
FeaturedIsPrefix ==
  (Answered("/api/products/featured") /\ LimitAsked >= 0) => FeaturedPrefix

\* C8 witness: the limit cuts the visible products short.
FeaturedWitness ==
  /\ Answered("/api/products/featured")
  /\ Given(req.args.limit)
  /\ LimitAsked = 1
  /\ Len(VisibleStored) = 2
  /\ resp.body.count = 1

\* a record with its missing fields set to the defaults
WithDefaults(p, fields) ==
  [f \in DOMAIN p |->
     IF f \in fields /\ p[f] = None
       THEN (IF f = "price" THEN Some(0) ELSE Some(<<>>))
       ELSE p[f]]

AllWithDefaults(s, fields) == [i \in 1..Len(s) |-> WithDefaults(s[i], fields)]

SameAsWithDefaults(fields) ==
  /\ Answered("/api/products") =>
       /\ resp.status = 200
       /\ AllWithDefaults(resp.body.products, fields)
            = query_products(AllWithDefaults(Stored, fields), req.args)
  /\ (Answered("/api/search") /\ ~Blank(req.args.q)) =>
       /\ resp.status = 200
       /\ AllWithDefaults(resp.body.results, fields)
            = search_results(AllWithDefaults(Stored, fields), resp.body.query)

\* C9 as stated: filter, sort and search answer for a record lacking price,
\* name, code, description or category as for the same record with the field
\* set to 0 or "".
MissingFieldsAreDefaults ==
  SameAsWithDefaults({"price", "name", "code", "description", "category"})

\* C9: filter, sort and search answer for a record lacking price, name,
\* code or description as for the same record with the field set to 0
\* (price) or "" (name, code, description), and no such request fails.
MissingPriceAndTextAreDefaults ==
  SameAsWithDefaults({"price", "name", "code", "description"})

\* C9 witness: a record without a price passes a max_price filter and is
\* sorted by price next to another record.
MissingFieldWitness ==
  /\ Answered("/api/products")
  /\ Given(req.args.max_price)
  /\ SortAsked = "price-asc"
  /\ resp.body.count = 2
  /\ \E p \in Range(resp.body.products) : p.price = None /\ p.name = None

\* C10: no handler changes either backing document, and an /api/ request
\* identical to the first request of the session gets the status and
\* payload the first one got.
HandlersAreReadOnly ==
  [][ /\ productsFile' = productsFile
      /\ translationsFile' = translationsFile
      /\ (first.set /\ pc' = "responded" /\ req'.route \in ApiRoutes
            /\ req' = first.req)
           => resp' = first.resp ]_vars

\* C10 witness: the first request of the session is made again after a
\* different request, and is answered with two products, sorted.
RepeatedRequestWitness ==
  /\ first.set
  /\ first.between
  /\ Answered("/api/products")
  /\ req = first.req
  /\ SortAsked = "price-desc"
  /\ resp.body.count = 2

====
